---- MODULE Spec2Model ----
(***************************************************************************)
(* The resumable event-stream session engine of the deer-flow web client   *)
(* (web/src/core/store/store.ts): the zustand store, processEventStream,   *)
(* sendMessage, restoreSession, switchConversation and the stream          *)
(* transports, together with the server's run status and event log that    *)
(* the transports read.                                                     *)
(***************************************************************************)
EXTENDS Integers, Sequences, FiniteSets, TLC

(***************************************************************************)
(* Bounds of the model.                                                    *)
(***************************************************************************)
MaxEvents == 2      \* envelopes the server emits, all runs together
MaxOps == 3         \* user operations: sends, restores, switches, reloads
MaxFrames == 2      \* frames of a response body under chatStreamReconnect's read loop

Threads == {"t1", "t2"}
MsgIds == {"m1", "m2"}
TcIds == {"tc1"}
Procs == {"send", "restore"}
NoValue == "none"
UserContent == "hi"
UserIds == <<"u1", "u2", "u3", "u4", "u5">>
Frags == <<"a", "b", "c", "d", "e", "f">>

\* data.agent of the envelopes that carry message id `id`
AgentOf(id) == IF id = "m1" THEN "planner" ELSE "reporter"

(***************************************************************************)
(* Envelopes (ChatEvent).  A "malformed" envelope is a frame whose data    *)
(* line is present but is not valid JSON.                                  *)
(***************************************************************************)
Env(type, id, fin, tcid, reason) ==
    [type |-> type, id |-> id, fin |-> fin, tcid |-> tcid, reason |-> reason]

Envelopes ==
    {Env("message_chunk", id, fin, "-", "-") : id \in MsgIds, fin \in BOOLEAN}
    \cup {Env("tool_calls", id, FALSE, tc, "-") : id \in MsgIds, tc \in TcIds}
    \cup {Env("tool_call_result", "-", FALSE, tc, "-") : tc \in TcIds}
    \cup {Env("citations", "-", FALSE, "-", "-")}
    \cup {Env("error", "-", FALSE, "-", r) : r \in {"cancelled", "failed"}}
    \cup {Env("malformed", "-", FALSE, "-", "-")}

AllKinds == {e.type : e \in Envelopes}

VARIABLES
    THREAD_ID,      \* the module variable THREAD_ID
    localStorage,   \* the items deerflow.thread_id and deerflow.event_index
    store,          \* the zustand store
    toasts,         \* number of toast() calls of the last step
    proc,           \* the sendMessage call and the restoreSession call in progress
    server,         \* per thread: the run's status, the durable log of all its
                    \* runs, and the place in it where the current run starts
    nanoids,        \* number of ids nanoid() has produced
    opsLeft,        \* user operations still to come
    eventsLeft,     \* envelopes the server may still emit, all runs together
    kinds,          \* the kinds of envelope the server's workflow emits
    applied,        \* places of the current run's log whose envelopes the store has consumed
    last,           \* the last step taken
    sse             \* a response body under chatStreamReconnect's read loop

vars == <<THREAD_ID, localStorage, store, toasts, proc, server, nanoids,
          opsLeft, eventsLeft, kinds, applied, last, sse>>

(***************************************************************************)
(* Helpers on sequences and maps.  A JavaScript Map is a sequence of       *)
(* entries in insertion order.                                             *)
(***************************************************************************)
Range(s) == {s[i] : i \in 1..Len(s)}
Includes(s, x) == x \in Range(s)
Reverse(s) == [i \in 1..Len(s) |-> s[Len(s) + 1 - i]]
IdsOf(ms) == {ms[i].id : i \in 1..Len(ms)}
NoMessage == [id |-> NoValue]

\* Map.get
MapGet(ms, id) ==
    IF id \in IdsOf(ms)
    THEN ms[CHOOSE i \in 1..Len(ms) : ms[i].id = id]
    ELSE NoMessage

\* Map.set: an existing key keeps its place, a new key goes last
MapSet(ms, m) ==
    IF m.id \in IdsOf(ms)
    THEN [i \in 1..Len(ms) |-> IF ms[i].id = m.id THEN m ELSE ms[i]]
    ELSE Append(ms, m)

\* key -> value maps of the research bookkeeping
KvGet(kv, k) == IF k \in DOMAIN kv THEN kv[k] ELSE NoValue
KvSet(kv, k, v) == [x \in DOMAIN kv \cup {k} |-> IF x = k THEN v ELSE kv[x]]
EmptyKv == [x \in {} |-> NoValue]

(***************************************************************************)
(* localStorage                                                            *)
(***************************************************************************)
\* an item of localStorage is <<>> when the key is absent, <<value>> otherwise;
\* when localStorage is not available every getItem, setItem and removeItem
\* throws
Storage(threadId, index, available) ==
    [thread_id |-> threadId, event_index |-> index, available |-> available]

\* getItem throws into the catch: 0
getStoredEventIndex(ls) ==
    IF ~ls.available \/ ls.event_index = <<>> THEN 0 ELSE ls.event_index[1]

\* setItem throws into the catch: nothing is written
setStoredEventIndex(ls, index) ==
    IF ls.available THEN [ls EXCEPT !.event_index = <<index>>] ELSE ls

\* localStorage.getItem(THREAD_ID_STORAGE_KEY), NoValue when it is absent or
\* getItem throws
getStoredThreadId(ls) == IF ls.available THEN ls.thread_id ELSE NoValue

(***************************************************************************)
(* The zustand store and its operations.                                   *)
(***************************************************************************)
InitialStore(threadId) ==
    [responding |-> FALSE,
     threadId |-> threadId,
     messageIds |-> <<>>,
     messages |-> <<>>,
     researchIds |-> <<>>,
     researchPlanIds |-> EmptyKv,
     researchReportIds |-> EmptyKv,
     researchActivityIds |-> EmptyKv,
     researchQueries |-> EmptyKv,
     researchCitations |-> EmptyKv,
     ongoingResearchId |-> NoValue,
     openResearchId |-> NoValue,
     conversations |-> <<>>,
     conversationsLoaded |-> FALSE]

\* appendMessage without its includes() test
useStore_appendMessage_always(s, message) ==
    [s EXCEPT !.messageIds = Append(s.messageIds, message.id),
              !.messages = MapSet(s.messages, message)]

useStore_appendMessage(s, message) ==
    [s EXCEPT !.messageIds = IF Includes(s.messageIds, message.id)
                             THEN s.messageIds
                             ELSE Append(s.messageIds, message.id),
              !.messages = MapSet(s.messages, message)]

useStore_updateMessage(s, message) ==
    [s EXCEPT !.messages = MapSet(s.messages, message)]

RECURSIVE SetAll(_, _)
SetAll(ms, updates) ==
    IF updates = <<>> THEN ms
    ELSE SetAll(MapSet(ms, Head(updates)), Tail(updates))

useStore_updateMessages(s, messages) ==
    [s EXCEPT !.messages = SetAll(s.messages, messages)]

setOngoingResearch(s, researchId) == [s EXCEPT !.ongoingResearchId = researchId]

\* setCitations that adds the list to the one the unit has
setCitations_appends(s, researchId, citations) ==
    [s EXCEPT !.researchCitations =
        KvSet(@, researchId,
              (IF researchId \in DOMAIN @ THEN @[researchId] ELSE <<>>) \o citations)]

setCitations(s, researchId, citations) ==
    [s EXCEPT !.researchCitations = KvSet(s.researchCitations, researchId, citations)]

openResearch(s, researchId) == [s EXCEPT !.openResearchId = researchId]

setResponding(s, value) == [s EXCEPT !.responding = value]

existsMessage(s, id) == Includes(s.messageIds, id)

getMessage(s, id) == MapGet(s.messages, id)

\* findMessageByToolCallId that falls back to the last inserted message
findMessageByToolCallId_orLatest(s, toolCallId) ==
    LET r == Reverse(s.messages)
        hits == {i \in 1..Len(r) : toolCallId \in r[i].toolCalls}
    IN  IF r = <<>> THEN NoMessage
        ELSE IF hits = {} THEN r[1]
        ELSE r[CHOOSE i \in hits : \A j \in hits : i <= j]

\* the last inserted message whose toolCalls hold toolCallId, or NoMessage
findMessageByToolCallId(s, toolCallId) ==
    LET r == Reverse(s.messages)
        hits == {i \in 1..Len(r) : toolCallId \in r[i].toolCalls}
    IN  IF hits = {} THEN NoMessage
        ELSE r[CHOOSE i \in hits : \A j \in hits : i <= j]

getOngoingResearchId(s) == s.ongoingResearchId

IsResearchAgent(agent) == agent \in {"coder", "reporter", "researcher", "analyst"}

\* the scan of appendResearch: latest planner message and latest user message
PlanMessageOf(s) ==
    LET r == Reverse(s.messageIds)
        hits == {i \in 1..Len(r) : getMessage(s, r[i]).id # NoValue
                                   /\ getMessage(s, r[i]).agent = "planner"}
    IN  IF hits = {} THEN NoMessage
        ELSE getMessage(s, r[CHOOSE i \in hits : \A j \in hits : i <= j])

UserQueryOf(s) ==
    LET r == Reverse(s.messageIds)
        hits == {i \in 1..Len(r) : getMessage(s, r[i]).id # NoValue
                                   /\ getMessage(s, r[i]).role = "user"
                                   /\ getMessage(s, r[i]).content # <<>>}
    IN  IF hits = {} THEN <<>>
        ELSE getMessage(s, r[CHOOSE i \in hits : \A j \in hits : i <= j]).content

\* planMessage!.id raises a TypeError when no planner message was found
appendResearchThrows(s) == PlanMessageOf(s).id = NoValue

appendResearch(s, researchId) ==
    LET planId == PlanMessageOf(s).id
    IN  [s EXCEPT !.ongoingResearchId = researchId,
                  !.researchIds = Append(s.researchIds, researchId),
                  !.researchPlanIds = KvSet(s.researchPlanIds, researchId, planId),
                  !.researchActivityIds =
                      KvSet(s.researchActivityIds, researchId, <<planId, researchId>>),
                  !.researchQueries =
                      KvSet(s.researchQueries, researchId, UserQueryOf(s))]

appendResearchActivity(s, message) ==
    LET researchId == getOngoingResearchId(s)
        current == KvGet(s.researchActivityIds, researchId)
        s1 == IF Includes(current, message.id) THEN s
              ELSE [s EXCEPT !.researchActivityIds =
                        KvSet(s.researchActivityIds, researchId,
                              Append(current, message.id))]
    IN  IF researchId = NoValue THEN s
        ELSE IF message.agent = "reporter"
             THEN [s1 EXCEPT !.researchReportIds =
                       KvSet(s1.researchReportIds, researchId, message.id)]
             ELSE s1

\* the module-level appendMessage; appendMessageThrows tells when it raises
appendMessageThrows(s, message) ==
    /\ IsResearchAgent(message.agent)
    /\ getOngoingResearchId(s) = NoValue
    /\ appendResearchThrows(s)

appendMessage(s, message) ==
    LET s1 == IF getOngoingResearchId(s) = NoValue
              THEN openResearch(appendResearch(s, message.id), message.id)
              ELSE s
    IN  IF IsResearchAgent(message.agent)
        THEN useStore_appendMessage(appendResearchActivity(s1, message), message)
        ELSE useStore_appendMessage(s, message)

\* the module-level updateMessage
updateMessage(s, message) ==
    IF getOngoingResearchId(s) # NoValue /\ message.agent = "reporter"
       /\ ~message.isStreaming
    THEN useStore_updateMessage(setOngoingResearch(s, NoValue), message)
    ELSE useStore_updateMessage(s, message)

(***************************************************************************)
(* Messages and the merge reducer.  mergeMessage lives in core/messages,   *)
(* whose source is not part of src/: it is modelled from the Message Merge *)
(* Engine of the specification, a pure reducer that returns a new value.   *)
(* An event is an envelope with the text fragment it carries; the fragment *)
(* of the envelope at place i of a run's log is Frags[i].                  *)
(***************************************************************************)
Msg(id, threadId, role, agent, content, isStreaming) ==
    [id |-> id, threadId |-> threadId, role |-> role, agent |-> agent,
     content |-> content, isStreaming |-> isStreaming,
     toolCalls |-> {}, toolResults |-> {}]

Event(env, frag, thread) == [env |-> env, frag |-> frag, thread |-> thread]

mergeMessage(message, event) ==
    LET e == event.env
        merged ==
            CASE e.type = "message_chunk" ->
                    [message EXCEPT !.content = Append(@, event.frag)]
              [] e.type = "tool_calls" ->
                    [message EXCEPT !.toolCalls = @ \cup {e.tcid}]
              [] e.type = "tool_call_result" ->
                    [message EXCEPT !.toolResults = @ \cup {e.tcid}]
              [] OTHER -> message
    IN  IF e.fin THEN [merged EXCEPT !.isStreaming = FALSE] ELSE merged

(***************************************************************************)
(* processEventStream.  w is the state the synchronous code reads and      *)
(* writes, [store, ls, toasts]; l holds the locals of one call,            *)
(* [messageId, pendingUpdates, updateTimer, eventIndex]; timerLeft is the   *)
(* time until updateTimer fires and pendingAge the time since the oldest   *)
(* entry of pendingUpdates was set, both in ticks of half the delay of     *)
(* scheduleUpdate.                                                         *)
(***************************************************************************)
\* the delay of the timer of scheduleUpdate, in ticks
BatchInterval == 2

World(s, ls, t) == [store |-> s, ls |-> ls, toasts |-> t]

InitLocals ==
    [messageId |-> NoValue, pendingUpdates |-> <<>>, updateTimer |-> FALSE,
     eventIndex |-> 0, timerLeft |-> 0, pendingAge |-> 0]

\* let eventIndex = opts.trackEventIndex ? getStoredEventIndex() : 0
StartLocals(ls, trackEventIndex) ==
    [InitLocals EXCEPT !.eventIndex =
        IF trackEventIndex THEN getStoredEventIndex(ls) ELSE 0]

Step(w, l, out) == [w |-> w, l |-> l, out |-> out]

\* message = mergeMessage(message, event); pendingUpdates.set(...); scheduleUpdate()
mergeAndSchedule(w, l, message, event) ==
    LET merged == mergeMessage(message, event)
    IN  Step(w,
             [l EXCEPT !.pendingUpdates = MapSet(@, merged), !.updateTimer = TRUE,
                       !.timerLeft = BatchInterval,
                       !.pendingAge = IF l.pendingUpdates = <<>> THEN 0 ELSE @],
             "continue")

\* the body of the for-await loop, for one event
processEvent(w, l, event, trackEventIndex) ==
    LET e == event.env
        l1 == IF trackEventIndex THEN [l EXCEPT !.eventIndex = @ + 1] ELSE l
        w1 == IF trackEventIndex
              THEN [w EXCEPT !.ls = setStoredEventIndex(@, l1.eventIndex)]
              ELSE w
        s == w1.store
    IN  CASE e.type = "error" ->
                Step(IF e.reason # "cancelled"
                     THEN [w1 EXCEPT !.toasts = @ + 1] ELSE w1,
                     l1, "break")
          [] e.type = "citations" ->
                Step(IF s.ongoingResearchId # NoValue
                     THEN [w1 EXCEPT !.store =
                              setCitations(s, s.ongoingResearchId, <<event.frag>>)]
                     ELSE w1,
                     l1, "continue")
          [] e.type = "tool_call_result" ->
                LET message == findMessageByToolCallId(s, e.tcid)
                IN  IF message.id # NoValue
                    THEN mergeAndSchedule(w1, [l1 EXCEPT !.messageId = message.id],
                                          message, event)
                    ELSE Step(w1, l1, "continue")
          [] OTHER ->
                LET l2 == [l1 EXCEPT !.messageId = e.id]
                    created == Msg(e.id, event.thread, "assistant", AgentOf(e.id), <<>>, TRUE)
                IN  IF ~existsMessage(s, e.id)
                    THEN IF appendMessageThrows(s, created)
                         THEN Step(w1, l2, "throw")
                         ELSE mergeAndSchedule(
                                  [w1 EXCEPT !.store = appendMessage(s, created)],
                                  l2, created, event)
                    ELSE IF getMessage(s, e.id).id # NoValue
                         THEN mergeAndSchedule(w1, l2, getMessage(s, e.id), event)
                         ELSE Step(w1, l2, "continue")

\* the timer callback of scheduleUpdate
flushTimer(w, l) ==
    Step(IF l.pendingUpdates # <<>>
         THEN [w EXCEPT !.store = useStore_updateMessages(@, l.pendingUpdates)]
         ELSE w,
         [l EXCEPT !.pendingUpdates = <<>>, !.updateTimer = FALSE,
                   !.timerLeft = 0, !.pendingAge = 0],
         "continue")

\* the catch block
\* the catch block treating an AbortError as any other error
catchBlock_alwaysToasts(w, l, isAborted) ==
    LET w1 == [w EXCEPT !.toasts = @ + 1]
        message == IF l.messageId = NoValue THEN NoMessage
                   ELSE getMessage(w1.store, l.messageId)
        s1 == IF message.id # NoValue /\ message.isStreaming
              THEN useStore_updateMessage(w1.store,
                                          [message EXCEPT !.isStreaming = FALSE])
              ELSE w1.store
    IN  [w1 EXCEPT !.store = setOngoingResearch(s1, NoValue)]

catchBlock(w, l, isAborted) ==
    LET w1 == IF isAborted THEN w ELSE [w EXCEPT !.toasts = @ + 1]
        message == IF l.messageId = NoValue THEN NoMessage
                   ELSE getMessage(w1.store, l.messageId)
        s1 == IF message.id # NoValue /\ message.isStreaming
              THEN useStore_updateMessage(w1.store,
                                          [message EXCEPT !.isStreaming = FALSE])
              ELSE w1.store
    IN  [w1 EXCEPT !.store = setOngoingResearch(s1, NoValue)]

\* the finally block
\* a finally block that drops the batch
finallyBlock_noFlush(w, l) == w

finallyBlock(w, l) ==
    IF l.pendingUpdates # <<>>
    THEN [w EXCEPT !.store = useStore_updateMessages(@, l.pendingUpdates)]
    ELSE w

\* leaveLoop where the break of an error envelope passes through the catch
\* block as well
leaveLoop_catchesBreak(w, l, how) ==
    CASE how \in {"throw", "break"} -> finallyBlock(catchBlock(w, l, FALSE), l)
      [] how = "abort" -> finallyBlock(catchBlock(w, l, TRUE), l)
      [] OTHER -> finallyBlock(w, l)

\* leaveLoop where the break of an error envelope skips the finally block
leaveLoop_breakSkipsFinally(w, l, how) ==
    CASE how = "throw" -> finallyBlock(catchBlock(w, l, FALSE), l)
      [] how = "abort" -> finallyBlock(catchBlock(w, l, TRUE), l)
      [] how = "break" -> w
      [] OTHER -> finallyBlock(w, l)

\* how processEventStream leaves the loop: "break" and "end" go to finally,
\* "throw" and "abort" pass through the catch block first
leaveLoop(w, l, how) ==
    CASE how = "throw" -> finallyBlock(catchBlock(w, l, FALSE), l)
      [] how = "abort" -> finallyBlock(catchBlock(w, l, TRUE), l)
      [] OTHER -> finallyBlock(w, l)

(***************************************************************************)
(* The calls in progress.  A call is at "idle" (no call), "status" (the    *)
(* status query is in flight), "stream" (processEventStream awaits the     *)
(* next event) or "history" (the history request is in flight).            *)
(* emptyAtCall records whether the store held no message when sendMessage  *)
(* was called; the code does not keep it.                                  *)
(***************************************************************************)
IdleProc ==
    [pc |-> "idle", qthread |-> NoValue, emptyAtCall |-> FALSE, mode |-> NoValue,
     sthread |-> NoValue, pos |-> 0, started |-> FALSE, after |-> NoValue,
     l |-> InitLocals]

\* a call that enters processEventStream on a stream of thread t from place pos
Streaming(mode, t, pos, after, l) ==
    [pc |-> "stream", qthread |-> NoValue, emptyAtCall |-> FALSE, mode |-> mode,
     sthread |-> t, pos |-> pos, started |-> FALSE, after |-> after, l |-> l]

\* the last step: the operation, the call that took it, its argument, and what
\* became of the connection of a reconnect stream that the step stopped
Last(op, p) == [op |-> op, proc |-> p, arg |-> NoValue, conn |-> NoValue]

(***************************************************************************)
(* The read loop of chatStreamReconnect and parseSSEEvent, on the text of  *)
(* a response body.  A text is a sequence of symbols: the line starts      *)
(* "event: " and "data: ", a kind, a JSON payload, "CR" and "LF".          *)
(***************************************************************************)
SseKinds == {"message_chunk", "tool_calls"}
SsePayloads == {"j1", "j2"}
SseFrames == [kind : SseKinds, payload : SsePayloads]

\* the line end the server writes
Eol(crlf) == IF crlf THEN <<"CR", "LF">> ELSE <<"LF">>

\* a frame on the wire: the two labelled lines and the blank line
FrameText(f, crlf) ==
    <<"event: ", f.kind>> \o Eol(crlf) \o <<"data: ", f.payload>> \o Eol(crlf)
        \o Eol(crlf)

RECURSIVE StreamText(_, _)
StreamText(frames, crlf) ==
    IF frames = <<>> THEN <<>>
    ELSE FrameText(Head(frames), crlf) \o StreamText(Tail(frames), crlf)

\* the white space that String.prototype.trim and JSON.parse skip
IsSpace(c) == c \in {"CR", "LF"}

RECURSIVE trimStart(_)
trimStart(t) ==
    IF t # <<>> /\ IsSpace(Head(t)) THEN trimStart(Tail(t)) ELSE t

RECURSIVE trimEnd(_)
trimEnd(t) ==
    IF t # <<>> /\ IsSpace(t[Len(t)]) THEN trimEnd(SubSeq(t, 1, Len(t) - 1)) ELSE t

trim(t) == trimEnd(trimStart(t))

\* buffer.indexOf("\n\n"), counted from 1; 0 when there is none
indexOfBlankLine(buffer) ==
    LET hits == {i \in 1..(Len(buffer) - 1) :
                    buffer[i] = "LF" /\ buffer[i + 1] = "LF"}
    IN  IF hits = {} THEN 0 ELSE CHOOSE i \in hits : \A j \in hits : i <= j

\* chunk.split("\n")
RECURSIVE splitLines(_, _)
splitLines(t, line) ==
    IF t = <<>> THEN <<line>>
    ELSE IF Head(t) = "LF" THEN <<line>> \o splitLines(Tail(t), <<>>)
    ELSE splitLines(Tail(t), Append(line, Head(t)))

\* JSON.parse of the text of a data line: white space around the value is
\* allowed
JSONparse(text) ==
    LET t == trim(text)
    IN  IF Len(t) = 1 /\ t[1] \in SsePayloads THEN t[1] ELSE "SyntaxError"

\* the fields parseSSEEvent has read from the first n lines; data is null or
\* a string, and the code asks only whether it is empty (!data)
RECURSIVE readLines(_, _)
readLines(lines, n) ==
    IF n = 0 THEN [eventType |-> <<"message">>, data |-> <<>>]
    ELSE LET f == readLines(lines, n - 1)
             line == lines[n]
         IN  IF line = <<>> THEN f
             ELSE IF Head(line) = "event: " THEN [f EXCEPT !.eventType = Tail(line)]
             ELSE IF Head(line) = "data: " THEN [f EXCEPT !.data = Tail(line)]
             ELSE f

\* parseSSEEvent returning undefined
NoEnvelope == [type |-> <<>>, data |-> NoValue]

\* the envelope of a chunk
parseSSEEvent(chunk) ==
    LET lines == splitLines(chunk, <<>>)
        f == readLines(lines, Len(lines))
    IN  IF f.data = <<>> THEN NoEnvelope
        ELSE IF JSONparse(f.data) = "SyntaxError" THEN NoEnvelope
        ELSE [type |-> f.eventType, data |-> JSONparse(f.data)]

\* if (chunk.trim()) { const event = parseSSEEvent(chunk.trim()); if (event) yield event }
yieldChunk(yielded, chunk) ==
    IF trim(chunk) = <<>> \/ parseSSEEvent(trim(chunk)) = NoEnvelope THEN yielded
    ELSE Append(yielded, parseSSEEvent(trim(chunk)))

\* the inner while loop: the frames that the buffer holds in full
RECURSIVE drain(_, _)
drain(buffer, yielded) ==
    LET idx == indexOfBlankLine(buffer)
    IN  IF idx = 0 THEN [buffer |-> buffer, yielded |-> yielded]
        ELSE drain(SubSeq(buffer, idx + 2, Len(buffer)),
                   yieldChunk(yielded, SubSeq(buffer, 1, idx - 1)))

\* no response body under the read loop
SseIdle ==
    [frames |-> <<>>, crlf |-> FALSE, cut |-> 0, wire |-> <<>>, buffer |-> <<>>,
     yielded |-> <<>>, mid |-> FALSE, done |-> TRUE]

\* the text of the body that carries `frames` and ends `cut` symbols before
\* the end of the blank line of its last frame
BodyText(frames, crlf, cut) ==
    SubSeq(StreamText(frames, crlf), 1, Len(StreamText(frames, crlf)) - cut)

\* the read loop starts on that body; mid records that a read has ended
\* between the two line feeds of a blank line
SseStart(frames, crlf, cut) ==
    [frames |-> frames, crlf |-> crlf, cut |-> cut,
     wire |-> BodyText(frames, crlf, cut),
     buffer |-> <<>>, yielded |-> <<>>, mid |-> FALSE, done |-> FALSE]

(***************************************************************************)
(* The server keeps, per thread, the status of its run and the frames of   *)
(* all its runs; a reconnect stream reads the frames of the current run,   *)
(* the history request all of them.  The client sees neither but through   *)
(* its requests, so the model lets the run move when the client looks: an  *)
(* envelope enters the log when the first stream reads that place of the   *)
(* log (Deliver), and the run ends when a stream sees the server close it  *)
(* (StreamEnd) or a status query finds it ended (RestoreReplay).           *)
(***************************************************************************)
\* the server with the run of thread t completed, if it was running
RunEnded(t) ==
    IF server[t].status = "running"
    THEN [server EXCEPT ![t].status = "completed"]
    ELSE server

\* a thread the server has never seen
NoThread == [status |-> "not_found", log |-> <<>>, base |-> 0]

\* a thread whose earlier run has completed and left `frames` in the durable
\* history
PastThread(frames) == [status |-> "completed", log |-> frames, base |-> 0]

\* the frames of the current run of thread t
RunLog(t) == SubSeq(server[t].log, server[t].base + 1, Len(server[t].log))

\* a first page load of a browser that has never run the client, with at
\* most maxOps user operations and maxEvents server envelopes to come, and
\* the server's threads as in `threads`
InitWith(maxOps, maxEvents, envelopeKinds, threads) ==
    /\ THREAD_ID = "t1"
    /\ localStorage = Storage("t1", <<>>, TRUE)
    /\ store = InitialStore("t1")
    /\ toasts = 0
    /\ proc = [p \in Procs |-> IdleProc]
    /\ server = threads
    /\ nanoids = 0
    /\ opsLeft = maxOps
    /\ eventsLeft = maxEvents
    /\ kinds = envelopeKinds
    /\ applied = {}
    /\ last = Last("init", NoValue)

NoThreads == [t \in Threads |-> NoThread]

Init == InitWith(MaxOps, MaxEvents, AllKinds, NoThreads) /\ sse = SseIdle

(***************************************************************************)
(* What follows `await processEventStream(...)` in the caller.             *)
(***************************************************************************)
\* sendMessage without the setResponding(false) that follows its await
afterStream_keepsResponding(w, pr) ==
    CASE pr.after = "respond" -> [w |-> w, pr |-> IdleProc]
      [] pr.after = "fallback" ->
            [w |-> w,
             pr |-> IF Len(w.store.messageIds) > 0 THEN IdleProc
                    ELSE [IdleProc EXCEPT !.pc = "history", !.qthread = pr.sthread]]

\* sendMessage without the return that ends its reconnect branch: it goes on
\* to the live stream
afterStream_fallsThrough(w, pr) ==
    CASE pr.after = "respond" ->
            [w |-> [w EXCEPT !.store = setResponding(@, FALSE)],
             pr |-> IF pr.mode = "reconnect"
                    THEN Streaming("live", pr.sthread, 0, "respond",
                                   StartLocals(w.ls, TRUE))
                    ELSE IdleProc]
      [] pr.after = "fallback" ->
            [w |-> w,
             pr |-> IF Len(w.store.messageIds) > 0 THEN IdleProc
                    ELSE [IdleProc EXCEPT !.pc = "history", !.qthread = pr.sthread]]

\* restoreSession going on to the history whatever the replay left
afterStream_alwaysHistory(w, pr) ==
    CASE pr.after = "respond" ->
            [w |-> [w EXCEPT !.store = setResponding(@, FALSE)], pr |-> IdleProc]
      [] pr.after = "fallback" ->
            [w |-> w,
             pr |-> [IdleProc EXCEPT !.pc = "history", !.qthread = pr.sthread]]

\* the world and the call after processEventStream has returned
afterStream(w, pr) ==
    CASE pr.after = "respond" ->
            [w |-> [w EXCEPT !.store = setResponding(@, FALSE)], pr |-> IdleProc]
      [] pr.after = "fallback" ->
            [w |-> w,
             pr |-> IF Len(w.store.messageIds) > 0 THEN IdleProc
                    ELSE [IdleProc EXCEPT !.pc = "history", !.qthread = pr.sthread]]

SetWorld(w) ==
    /\ store' = w.store
    /\ localStorage' = w.ls
    /\ toasts' = w.toasts

\* the world a step starts from: no toast raised yet in this step
TheWorld == World(store, localStorage, 0)

\* the call p leaves the for-await loop in the way `how`
Leave(p, w, l, how) ==
    LET r == afterStream(leaveLoop(w, l, how), proc[p])
    IN  /\ SetWorld(r.w)
        /\ proc' = [proc EXCEPT ![p] = r.pr]

(***************************************************************************)
(* The status query.                                                       *)
(***************************************************************************)
\* how a status request can go: answered with the status, answered with a
\* response that is not ok, or rejected by fetch
StatusOutcomes == {"ok", "not_ok", "rejected"}

\* a status query that reports what the server holds whatever the response
fetchWorkflowStatus_ignoresFailure(status, outcome) == status

\* what the caller of fetchWorkflowStatus gets when the server holds `status`:
\* "throw" stands for the rejected promise
fetchWorkflowStatus(status, outcome) ==
    CASE outcome = "ok" -> status
      [] outcome = "not_ok" -> "not_found"
      [] OTHER -> "throw"

\* the status of thread t when the query is answered: the run may have ended
\* since the client last heard of it
StatusNow(t) == {server[t].status, RunEnded(t)[t].status}

(***************************************************************************)
(* sendMessage                                                             *)
(***************************************************************************)
SendMessage(content) ==
    /\ proc["send"].pc = "idle"
    /\ opsLeft > 0
    /\ opsLeft' = opsLeft - 1
    /\ IF content # NoValue
       THEN /\ store' = appendMessage(store,
                   Msg(UserIds[nanoids + 1], THREAD_ID, "user", NoValue,
                       <<content>>, FALSE))
            /\ nanoids' = nanoids + 1
       ELSE UNCHANGED <<store, nanoids>>
    /\ proc' = [proc EXCEPT !["send"] =
                   [IdleProc EXCEPT !.pc = "status", !.qthread = THREAD_ID,
                                    !.emptyAtCall = (store.messageIds = <<>>)]]
    /\ last' = [Last("sendMessage", "send") EXCEPT !.arg = content]
    /\ toasts' = 0
    /\ UNCHANGED <<THREAD_ID, localStorage, server, applied, eventsLeft, kinds, sse>>

\* the status query answers "running": reconnect
SendReconnect(outcome) ==
    /\ proc["send"].pc = "status"
    /\ fetchWorkflowStatus(server[proc["send"].qthread].status, outcome) = "running"
    /\ LET hasMessages == Len(store.messageIds) > 0
           fromIndex == IF hasMessages THEN getStoredEventIndex(localStorage) ELSE 0
           ls == IF hasMessages THEN localStorage
                 ELSE setStoredEventIndex(localStorage, 0)
       IN  /\ store' = setResponding(store, TRUE)
           /\ localStorage' = ls
           /\ proc' = [proc EXCEPT !["send"] =
                          Streaming("reconnect", THREAD_ID, fromIndex, "respond",
                                    StartLocals(ls, TRUE))]
    /\ last' = [Last("SendReconnect", "send") EXCEPT !.arg = outcome]
    /\ toasts' = 0
    /\ UNCHANGED <<THREAD_ID, server, nanoids,
                   opsLeft, applied, eventsLeft, kinds, sse>>

\* the fresh live stream without the reset of the event index before it
SendLive_noReset(outcome) ==
    /\ proc["send"].pc = "status"
    /\ \E status \in StatusNow(proc["send"].qthread) :
          fetchWorkflowStatus(status, outcome) # "running"
    /\ store' = setResponding(store, TRUE)
    /\ proc' = [proc EXCEPT !["send"] =
                   Streaming("live", THREAD_ID, 0, "respond",
                             StartLocals(localStorage, TRUE))]
    /\ server' = [server EXCEPT ![THREAD_ID].status = "running",
                                ![THREAD_ID].base = Len(server[THREAD_ID].log)]
    /\ applied' = {}
    /\ last' = [Last("SendLive", "send") EXCEPT !.arg = outcome]
    /\ toasts' = 0
    /\ UNCHANGED <<THREAD_ID, localStorage, nanoids, opsLeft, eventsLeft, kinds, sse>>

\* the status query answers anything else, or fails: a fresh live stream,
\* which starts a new run of the thread on the server
SendLive(outcome) ==
    /\ proc["send"].pc = "status"
    /\ \E status \in StatusNow(proc["send"].qthread) :
          fetchWorkflowStatus(status, outcome) # "running"
    /\ LET ls == setStoredEventIndex(localStorage, 0)
       IN  /\ localStorage' = ls
           /\ store' = setResponding(store, TRUE)
           /\ proc' = [proc EXCEPT !["send"] =
                          Streaming("live", THREAD_ID, 0, "respond",
                                    StartLocals(ls, TRUE))]
    /\ server' = [server EXCEPT ![THREAD_ID].status = "running",
                                ![THREAD_ID].base = Len(server[THREAD_ID].log)]
    /\ applied' = {}
    /\ last' = [Last("SendLive", "send") EXCEPT !.arg = outcome]
    /\ toasts' = 0
    /\ UNCHANGED <<THREAD_ID, nanoids, opsLeft, eventsLeft, kinds, sse>>

(***************************************************************************)
(* The for-await loop of processEventStream over a live stream             *)
(* (chatStream) or a reconnect stream (chatStreamReconnect).               *)
(***************************************************************************)
\* the connection of a reconnect stream once its consumption has stopped: the
\* server ended the body ("end"), read() rejected ("throw"), the signal given
\* to fetch aborted it ("abort"), all of which close it, or the consumer left
\* the for-await ("return"), which runs the finally of the generator: the
\* reader's lock is released and the body is neither cancelled nor aborted
reconnectCleanup(stop) == IF stop = "return" THEN "open" ELSE "closed"

\* the places of the log of the active thread that the store has consumed
Consumed(t, places) == IF t = THREAD_ID THEN applied \cup places ELSE applied

\* the stream of call p yields the next frame of the log, envelope e: a frame
\* the run emitted before, or the one it emits now (an error envelope is the
\* last one of its run)
Deliver(p, e) ==
    /\ proc[p].pc = "stream"
    /\ e.type \in kinds
    /\ LET t == proc[p].sthread
           log == RunLog(t)
       IN  IF proc[p].pos < Len(log)
           THEN /\ e = log[proc[p].pos + 1]
                /\ UNCHANGED <<server, eventsLeft>>
           ELSE /\ proc[p].pos = Len(log)
                /\ server[t].status = "running"
                /\ eventsLeft > 0
                /\ eventsLeft' = eventsLeft - 1
                /\ server' = [server EXCEPT
                      ![t].log = Append(@, e),
                      ![t].status = IF e.type = "error" THEN "error" ELSE @]
    /\ LET pr == proc[p]
           event == Event(e, Frags[server[pr.sthread].base + pr.pos + 1],
                          pr.sthread)
           adv == [pr EXCEPT !.pos = @ + 1, !.started = TRUE]
           r == processEvent(TheWorld, pr.l, event, TRUE)
       IN  /\ IF e.type = "malformed"
              THEN \* chatStream: JSON.parse throws inside its try, the generator
                   \* ends; chatStreamReconnect: parseSSEEvent yields nothing
                   /\ IF pr.mode = "live"
                      THEN Leave(p, TheWorld, pr.l, "end")
                      ELSE /\ proc' = [proc EXCEPT ![p] = adv]
                           /\ toasts' = 0
                           /\ UNCHANGED <<store, localStorage>>
                   /\ UNCHANGED applied
              ELSE /\ IF r.out = "continue"
                      THEN /\ SetWorld(r.w)
                           /\ proc' = [proc EXCEPT ![p] = [adv EXCEPT !.l = r.l]]
                      ELSE Leave(p, r.w, r.l, r.out)
                   /\ applied' = IF r.out = "throw" THEN applied
                                 ELSE Consumed(pr.sthread, {pr.pos + 1})
           /\ last' = [Last("Deliver", p) EXCEPT !.conn =
                          IF /\ pr.mode = "reconnect"
                             /\ e.type # "malformed"
                             /\ r.out # "continue"
                          THEN reconnectCleanup("return") ELSE NoValue]
    /\ UNCHANGED <<THREAD_ID, nanoids, opsLeft, kinds, sse>>

\* the stream of call p ends: "end" the server closed it after the last frame,
\* "silent" a transport failure that ends the sequence, "throw" a transport
\* failure that raises, "abort" the caller's abortSignal
StreamEnd(p, how) ==
    /\ proc[p].pc = "stream"
    /\ LET pr == proc[p]
       IN  /\ CASE how = "end" ->
                      /\ pr.pos >= Len(RunLog(pr.sthread))
                      /\ server[pr.sthread].status # "not_found"
                      /\ server' = RunEnded(pr.sthread)
                      /\ Leave(p, TheWorld, pr.l, "end")
                [] how = "silent" ->
                      \* chatStream swallows every error; chatStreamReconnect
                      \* returns on a response that is not ok
                      /\ pr.mode = "live" \/ ~pr.started
                      /\ UNCHANGED server
                      /\ Leave(p, TheWorld, pr.l, "end")
                [] how = "throw" ->
                      \* fetch or reader.read() of chatStreamReconnect rejects
                      /\ pr.mode = "reconnect"
                      /\ UNCHANGED server
                      /\ Leave(p, TheWorld, pr.l, "throw")
                [] how = "abort" ->
                      \* only sendMessage passes an abortSignal
                      /\ p = "send"
                      /\ UNCHANGED server
                      /\ Leave(p, TheWorld, pr.l,
                               IF pr.mode = "live" THEN "end" ELSE "abort")
    /\ last' = [Last(how, p) EXCEPT
                   !.arg = proc[p].mode,
                   !.conn = IF proc[p].mode = "reconnect" /\ how # "silent"
                            THEN reconnectCleanup(how) ELSE NoValue]
    /\ UNCHANGED <<THREAD_ID, nanoids, opsLeft, applied, eventsLeft, kinds, sse>>

\* the caller aborts the signal it passed to sendMessage once more, after the
\* stream has ended: no fetch and no reader listens to the signal any more
AbortAfterEnd ==
    /\ proc["send"].pc = "idle"
    /\ last.proc = "send"
    /\ last.op \in {"Deliver", "end", "silent", "throw", "abort"}
    /\ last' = Last("abort", "send")
    /\ toasts' = 0
    /\ UNCHANGED <<THREAD_ID, localStorage, store, proc, server, nanoids,
                   opsLeft, applied, eventsLeft, kinds, sse>>

\* the 16 ms timer of scheduleUpdate fires
TimerFire(p) ==
    /\ proc[p].pc = "stream"
    /\ proc[p].l.updateTimer
    /\ LET r == flushTimer(TheWorld, proc[p].l)
       IN  /\ SetWorld(r.w)
           /\ proc' = [proc EXCEPT ![p].l = r.l]
    /\ last' = Last("TimerFire", p)
    /\ UNCHANGED <<THREAD_ID, server, nanoids,
                   opsLeft, applied, eventsLeft, kinds, sse>>

(***************************************************************************)
(* restoreSession                                                          *)
(***************************************************************************)
\* restoreSession is called when the page has loaded and by the sidebar's
\* handleSwitch, in the same task as its switchConversation
RestoreSession ==
    /\ proc["restore"].pc = "idle"
    /\ last.op \in {"init", "reload", "switchConversation"}
    /\ opsLeft > 0
    /\ opsLeft' = opsLeft - 1
    /\ proc' = [proc EXCEPT !["restore"] =
                   IF getStoredThreadId(localStorage) = NoValue THEN IdleProc
                   ELSE [IdleProc EXCEPT !.pc = "status",
                                         !.qthread = getStoredThreadId(localStorage)]]
    /\ last' = Last("restoreSession", "restore")
    /\ toasts' = 0
    /\ UNCHANGED <<THREAD_ID, localStorage, store, server,
                   nanoids, applied, eventsLeft, kinds, sse>>

\* restoreSession reconnecting from the persisted cursor as sendMessage does
RestoreRunning_fromStored(outcome) ==
    /\ proc["restore"].pc = "status"
    /\ fetchWorkflowStatus(server[proc["restore"].qthread].status, outcome) = "running"
    /\ store' = setResponding(store, TRUE)
    /\ proc' = [proc EXCEPT !["restore"] =
                   Streaming("reconnect", proc["restore"].qthread,
                             getStoredEventIndex(localStorage),
                             "respond", StartLocals(localStorage, TRUE))]
    /\ last' = [Last("RestoreRunning", "restore") EXCEPT !.arg = outcome]
    /\ toasts' = 0
    /\ UNCHANGED <<THREAD_ID, localStorage, server, nanoids,
                   opsLeft, applied, eventsLeft, kinds, sse>>

\* status "running": reconnect from 0 with the responding flag set
RestoreRunning(outcome) ==
    /\ proc["restore"].pc = "status"
    /\ fetchWorkflowStatus(server[proc["restore"].qthread].status, outcome) = "running"
    /\ LET ls == setStoredEventIndex(localStorage, 0)
       IN  /\ localStorage' = ls
           /\ store' = setResponding(store, TRUE)
           /\ proc' = [proc EXCEPT !["restore"] =
                          Streaming("reconnect", proc["restore"].qthread, 0,
                                    "respond", StartLocals(ls, TRUE))]
    /\ last' = [Last("RestoreRunning", "restore") EXCEPT !.arg = outcome]
    /\ toasts' = 0
    /\ UNCHANGED <<THREAD_ID, server, nanoids,
                   opsLeft, applied, eventsLeft, kinds, sse>>

\* status "completed" or "error": replay from 0, history if nothing came
RestoreReplay(outcome) ==
    /\ proc["restore"].pc = "status"
    /\ fetchWorkflowStatus(RunEnded(proc["restore"].qthread)[proc["restore"].qthread].status,
                           outcome) \in {"completed", "error"}
    /\ server' = RunEnded(proc["restore"].qthread)
    /\ LET ls == setStoredEventIndex(localStorage, 0)
       IN  /\ localStorage' = ls
           /\ proc' = [proc EXCEPT !["restore"] =
                          Streaming("reconnect", proc["restore"].qthread, 0,
                                    "fallback", StartLocals(ls, TRUE))]
    /\ last' = [Last("RestoreReplay", "restore") EXCEPT !.arg = outcome]
    /\ toasts' = 0
    /\ UNCHANGED <<THREAD_ID, store, nanoids,
                   opsLeft, applied, eventsLeft, kinds, sse>>

\* status "not_found", or the status query fails: the history request
RestoreNoRun(outcome) ==
    /\ proc["restore"].pc = "status"
    /\ \E status \in StatusNow(proc["restore"].qthread) :
          fetchWorkflowStatus(status, outcome)
             \notin {"running", "completed", "error"}
    /\ proc' = [proc EXCEPT !["restore"].pc = "history"]
    /\ last' = [Last("RestoreNoRun", "restore") EXCEPT !.arg = outcome]
    /\ toasts' = 0
    /\ UNCHANGED <<THREAD_ID, localStorage, store, server,
                   nanoids, opsLeft, applied, eventsLeft, kinds, sse>>

\* one frame of the durable history, folded into the store
historyFrame(s, event) ==
    LET e == event.env
        created == Msg(e.id, event.thread, "assistant", AgentOf(e.id), <<>>, FALSE)
        s1 == IF existsMessage(s, e.id) THEN s ELSE appendMessage(s, created)
        owner == findMessageByToolCallId(s, e.tcid)
        final(m) == [mergeMessage(m, event) EXCEPT !.isStreaming = FALSE]
    IN  CASE e.type \in {"malformed", "error"} -> s
          [] e.type = "citations" ->
                IF s.ongoingResearchId # NoValue
                THEN setCitations(s, s.ongoingResearchId, <<event.frag>>)
                ELSE s
          [] e.type = "tool_call_result" ->
                IF owner.id = NoValue THEN s
                ELSE useStore_updateMessage(s, final(getMessage(s, owner.id)))
          [] OTHER ->
                IF ~existsMessage(s, e.id) /\ appendMessageThrows(s, created)
                THEN s      \* the frame's try block swallows the TypeError
                ELSE IF getMessage(s1, e.id).id = NoValue THEN s1
                     ELSE useStore_updateMessage(s1, final(getMessage(s1, e.id)))

\* the replay of the history that ends at the first error frame
RECURSIVE historyReplay_stopsAtError(_, _, _, _)
historyReplay_stopsAtError(s, frames, i, thread) ==
    IF i > Len(frames) \/ frames[i].type = "error" THEN s
    ELSE historyReplay_stopsAtError(
             historyFrame(s, Event(frames[i], Frags[i], thread)), frames, i + 1, thread)

RECURSIVE historyReplay(_, _, _, _)
historyReplay(s, frames, i, thread) ==
    IF i > Len(frames) THEN s
    ELSE historyReplay(historyFrame(s, Event(frames[i], Frags[i], thread)),
                       frames, i + 1, thread)

\* the history request answers: the raw frames of the thread's log, or nothing
HistoryReply(available) ==
    /\ proc["restore"].pc = "history"
    /\ LET t == proc["restore"].qthread
           frames == server[t].log
       IN  IF available /\ frames # <<>>
           THEN /\ store' = historyReplay(store, frames, 1, t)
                /\ applied' = Consumed(t, 1..Len(RunLog(t)))
           ELSE UNCHANGED <<store, applied>>
    /\ proc' = [proc EXCEPT !["restore"] = IdleProc]
    /\ last' = Last(IF available /\ server[proc["restore"].qthread].log # <<>>
                     THEN "history" ELSE "nohistory", "restore")
    /\ toasts' = 0
    /\ UNCHANGED <<THREAD_ID, localStorage, server,
                   nanoids, opsLeft, eventsLeft, kinds, sse>>

(***************************************************************************)
(* switchConversation, startNewConversation and a reload of the page       *)
(***************************************************************************)
\* switchConversation without its removeItem of the persisted cursor
switchConversation_keepsCursor(threadId) ==
    /\ THREAD_ID' = threadId
    /\ localStorage' = IF localStorage.available
                       THEN [localStorage EXCEPT !.thread_id = threadId]
                       ELSE localStorage
    /\ store' = [InitialStore(threadId) EXCEPT
                    !.conversations = store.conversations,
                    !.conversationsLoaded = store.conversationsLoaded]

\* switchConversation resetting the whole store
switchConversation_resetsAll(threadId) ==
    /\ THREAD_ID' = threadId
    /\ localStorage' = IF localStorage.available
                       THEN Storage(threadId, <<>>, TRUE)
                       ELSE localStorage
    /\ store' = InitialStore(threadId)

switchConversation(threadId) ==
    /\ THREAD_ID' = threadId
    /\ localStorage' = IF localStorage.available
                       THEN Storage(threadId, <<>>, TRUE)
                       ELSE localStorage
    /\ store' = [InitialStore(threadId) EXCEPT
                    !.conversations = store.conversations,
                    !.conversationsLoaded = store.conversationsLoaded]

SwitchConversation(threadId) ==
    /\ opsLeft > 0
    /\ opsLeft' = opsLeft - 1
    /\ switchConversation(threadId)
    /\ applied' = {}
    /\ last' = Last("switchConversation", NoValue)
    /\ toasts' = 0
    /\ UNCHANGED <<proc, server, nanoids, eventsLeft, kinds, sse>>

\* nanoid() names a thread the server has never seen
StartNewConversation ==
    /\ opsLeft > 0
    /\ opsLeft' = opsLeft - 1
    /\ \E newId \in Threads :
          /\ newId # THREAD_ID
          /\ server[newId] = NoThread
          /\ switchConversation(newId)
    /\ applied' = {}
    /\ last' = Last("startNewConversation", NoValue)
    /\ toasts' = 0
    /\ UNCHANGED <<proc, server, nanoids, eventsLeft, kinds, sse>>

\* the page is reloaded: the module is evaluated again, every call is gone,
\* localStorage stays; getOrCreateThreadId finds the stored id, or makes one
\* with nanoid() when getItem throws
Reload ==
    /\ opsLeft > 0
    /\ opsLeft' = opsLeft - 1
    /\ \E id \in Threads :
          /\ IF getStoredThreadId(localStorage) # NoValue
             THEN id = getStoredThreadId(localStorage)
             ELSE server[id] = NoThread
          /\ THREAD_ID' = id
          /\ store' = InitialStore(id)
    /\ proc' = [p \in Procs |-> IdleProc]
    /\ applied' = {}
    /\ last' = Last("reload", NoValue)
    /\ toasts' = 0
    /\ UNCHANGED <<localStorage, server, nanoids, eventsLeft, kinds, sse>>

Next ==
    \/ \E content \in {UserContent, NoValue} : SendMessage(content)
    \/ \E outcome \in StatusOutcomes : SendReconnect(outcome)
    \/ \E outcome \in StatusOutcomes : SendLive(outcome)
    \/ RestoreSession
    \/ \E outcome \in StatusOutcomes : RestoreRunning(outcome)
    \/ \E outcome \in StatusOutcomes : RestoreReplay(outcome)
    \/ \E outcome \in StatusOutcomes : RestoreNoRun(outcome)
    \/ \E available \in BOOLEAN : HistoryReply(available)
    \/ \E p \in Procs, e \in Envelopes : Deliver(p, e)
    \/ \E p \in Procs, how \in {"end", "silent", "throw", "abort"} : StreamEnd(p, how)
    \/ AbortAfterEnd
    \/ \E p \in Procs : TimerFire(p)
    \/ \E threadId \in Threads \ {THREAD_ID} : SwitchConversation(threadId)
    \/ StartNewConversation
    \/ Reload

Spec == Init /\ [][Next]_vars

\* the stream that sendMessage consumes ends in one of the ways a stream can
\* end: the premise of a claim about what follows the end of the stream
SendStreamEnds == \E how \in {"end", "silent", "throw", "abort"} : StreamEnd("send", how)

\* one envelope fewer to come than in Init
FairInit == InitWith(MaxOps, MaxEvents - 1, AllKinds, NoThreads) /\ sse = SseIdle

FairSpec == FairInit /\ [][Next]_vars /\ WF_vars(SendStreamEnds)

\* a page load where the sidebar lists a second conversation, t2, whose
\* earlier run left one frame in the durable history
HistoryInit ==
    /\ InitWith(MaxOps, MaxEvents - 1, AllKinds,
                [NoThreads EXCEPT
                    !["t2"] = PastThread(<<Env("message_chunk", "m2", FALSE, "-", "-")>>)])
    /\ sse = SseIdle

HistorySpec == HistoryInit /\ [][Next]_vars

\* a thread whose run is under way and has emitted `frames` so far
RunningThread(frames) == [status |-> "running", log |-> frames, base |-> 0]

\* a cold load: the page was reloaded while the run of t1 was under way, after
\* the client had consumed its first envelope; one user operation to come
\* the user operations that may follow the reload of ColdInit
ColdOps == MaxOps - 2

ColdInit ==
    /\ THREAD_ID = "t1"
    /\ localStorage = Storage("t1", <<1>>, TRUE)
    /\ store = InitialStore("t1")
    /\ toasts = 0
    /\ proc = [p \in Procs |-> IdleProc]
    /\ server = [NoThreads EXCEPT
                    !["t1"] = RunningThread(
                                 <<Env("message_chunk", "m1", FALSE, "-", "-")>>)]
    /\ nanoids = 0
    /\ opsLeft = ColdOps
    /\ eventsLeft = MaxEvents + 1
    /\ kinds = AllKinds
    /\ applied = {}
    /\ last = Last("init", NoValue)
    /\ sse = SseIdle

ColdSpec == ColdInit /\ [][Next]_vars

(***************************************************************************)
(* The list of conversations: loadConversations is called by the sidebar   *)
(* and, without being awaited, at the end of sendMessage's live branch; it *)
(* writes the store when fetchConversations has answered.                  *)
(***************************************************************************)
\* the threads the server has seen, or no conversation when the response
\* is not ok; "throw" when the request is rejected
fetchConversations(outcome) ==
    CASE outcome = "ok" -> SelectSeq(<<"t1", "t2">>, LAMBDA t : server[t] # NoThread)
      [] outcome = "not_ok" -> <<>>
      [] OTHER -> "throw"

LoadConversations(outcome) ==
    /\ store' = IF outcome = "rejected"
                THEN store
                ELSE [store EXCEPT !.conversations = fetchConversations(outcome),
                                   !.conversationsLoaded = TRUE]
    /\ last' = Last("loadConversations", NoValue)
    /\ toasts' = 0
    /\ UNCHANGED <<THREAD_ID, localStorage, proc, server, nanoids,
                   opsLeft, applied, eventsLeft, kinds, sse>>

SidebarNext ==
    \/ Next
    \/ \E outcome \in StatusOutcomes : LoadConversations(outcome)

\* one user operation fewer than in Init
SidebarInit == InitWith(MaxOps - 1, MaxEvents, AllKinds, NoThreads) /\ sse = SseIdle

SidebarSpec == SidebarInit /\ [][SidebarNext]_vars

(***************************************************************************)
(* The research bookkeeping of the module-level appendMessage, driven by   *)
(* the messages its callers give it: sendMessage gives user messages with  *)
(* any content, the empty string included, processEventStream assistant   *)
(* messages of the agents; the catch block of processEventStream ends the *)
(* ongoing unit.                                                           *)
(***************************************************************************)
ResearchMessages ==
    {Msg(id, THREAD_ID, "user", NoValue, content, FALSE) :
        id \in {"u1", "u2"}, content \in {<<>>, <<UserContent>>}}
    \cup {Msg("m1", THREAD_ID, "assistant", "planner", <<>>, TRUE),
          Msg("m2", THREAD_ID, "assistant", "reporter", <<>>, TRUE),
          Msg("m3", THREAD_ID, "assistant", "researcher", <<>>, TRUE),
          Msg("m4", THREAD_ID, "assistant", "planner", <<>>, TRUE)}

ResearchStep(op, id, s) ==
    /\ store' = s
    /\ last' = [Last(op, NoValue) EXCEPT !.arg = id]
    /\ toasts' = 0
    /\ UNCHANGED <<THREAD_ID, localStorage, proc, server, nanoids, opsLeft,
                   applied, eventsLeft, kinds, sse>>

\* appendMessage(message) of a message the store does not hold; it raises
\* before any write when appendResearch finds no planner message
ResearchAppend(message) ==
    /\ ~existsMessage(store, message.id)
    /\ IF appendMessageThrows(store, message)
       THEN ResearchStep("appendMessageThrew", message.id, store)
       ELSE ResearchStep("appendedMessage", message.id, appendMessage(store, message))

\* useStore.getState().setOngoingResearch(null) of the catch block
ResearchEnd ==
    /\ getOngoingResearchId(store) # NoValue
    /\ ResearchStep("setOngoingResearch", NoValue, setOngoingResearch(store, NoValue))

ResearchNext ==
    \/ \E message \in ResearchMessages : ResearchAppend(message)
    \/ ResearchEnd

ResearchSpec == Init /\ [][ResearchNext]_vars

(***************************************************************************)
(* Time.  A tick passes for every call whose timer is pending; a timer     *)
(* that is due fires before the next tick, and not before it is due.       *)
(***************************************************************************)
TimerPending(p) == proc[p].pc = "stream" /\ proc[p].l.updateTimer

Tick ==
    /\ \E p \in Procs : TimerPending(p)
    /\ \A p \in Procs : TimerPending(p) => proc[p].l.timerLeft > 0
    /\ proc' = [p \in Procs |->
                   IF TimerPending(p)
                   THEN [proc[p] EXCEPT !.l.timerLeft = @ - 1,
                                        !.l.pendingAge = @ + 1]
                   ELSE proc[p]]
    /\ last' = Last("tick", NoValue)
    /\ toasts' = 0
    /\ UNCHANGED <<THREAD_ID, localStorage, store, server, nanoids, opsLeft,
                   applied, eventsLeft, kinds, sse>>

\* the timer of call p is due
TimerDue(p) == TimerPending(p) /\ proc[p].l.timerLeft = 0

\* the timer fires when it is due
TimedTimerFire(p) == TimerDue(p) /\ TimerFire(p)

\* an envelope arrives before the timer is due, or with no timer pending
TimedDeliver(p, e) == ~TimerDue(p) /\ Deliver(p, e)

BatchNext ==
    \/ Tick
    \/ \E content \in {UserContent, NoValue} : SendMessage(content)
    \/ \E outcome \in StatusOutcomes : SendReconnect(outcome)
    \/ \E outcome \in StatusOutcomes : SendLive(outcome)
    \/ RestoreSession
    \/ \E outcome \in StatusOutcomes : RestoreRunning(outcome)
    \/ \E outcome \in StatusOutcomes : RestoreReplay(outcome)
    \/ \E outcome \in StatusOutcomes : RestoreNoRun(outcome)
    \/ \E available \in BOOLEAN : HistoryReply(available)
    \/ \E p \in Procs, e \in Envelopes : TimedDeliver(p, e)
    \/ \E p \in Procs, how \in {"end", "silent", "throw", "abort"} : StreamEnd(p, how)
    \/ AbortAfterEnd
    \/ \E p \in Procs : TimedTimerFire(p)
    \/ \E threadId \in Threads \ {THREAD_ID} : SwitchConversation(threadId)
    \/ StartNewConversation
    \/ Reload

\* one user operation fewer than in Init
BatchInit == InitWith(MaxOps - 1, MaxEvents, AllKinds, NoThreads) /\ sse = SseIdle

BatchSpec == BatchInit /\ [][BatchNext]_vars

\* a first page load in a browser whose localStorage may be unavailable
StorageInit ==
    /\ THREAD_ID = "t1"
    /\ localStorage \in {Storage("t1", <<>>, TRUE), Storage(NoValue, <<>>, FALSE)}
    /\ store = InitialStore("t1")
    /\ toasts = 0
    /\ proc = [p \in Procs |-> IdleProc]
    /\ server = NoThreads
    /\ nanoids = 0
    /\ opsLeft = MaxOps - 1
    /\ eventsLeft = MaxEvents
    /\ kinds = AllKinds
    /\ applied = {}
    /\ last = Last("init", NoValue)
    /\ sse = SseIdle

StorageSpec == StorageInit /\ [][Next]_vars

(***************************************************************************)
(* chatStreamReconnect reading one response body, whose text arrives in    *)
(* pieces of any length.                                                   *)
(***************************************************************************)
\* the bodies of up to n frames
RECURSIVE SseBodies(_)
SseBodies(n) ==
    IF n = 0 THEN {<<>>}
    ELSE SseBodies(n - 1)
            \cup {Append(b, f) : b \in {b \in SseBodies(n - 1) : Len(b) = n - 1},
                                 f \in SseFrames}

SseInit ==
    /\ InitWith(0, 0, {}, NoThreads)
    /\ \E frames \in SseBodies(MaxFrames) \ {<<>>}, crlf \in BOOLEAN :
          \E cut \in 0..Len(Eol(crlf) \o Eol(crlf)) :
             sse = SseStart(frames, crlf, cut)

\* a read ends inside a blank line when n symbols of the wire are taken
InBlankLine(wire, n) ==
    /\ n < Len(wire)
    /\ wire[n] = "LF"
    /\ wire[n + 1] = "LF"

\* a read loop that parses each piece it reads on its own
SseRead_dropsBuffer(n) ==
    /\ ~sse.done
    /\ LET d == drain(SubSeq(sse.wire, 1, n), sse.yielded)
       IN  sse' = [sse EXCEPT !.wire = SubSeq(@, n + 1, Len(@)),
                              !.buffer = d.buffer,
                              !.yielded = d.yielded,
                              !.mid = @ \/ InBlankLine(sse.wire, n)]
    /\ UNCHANGED <<THREAD_ID, localStorage, store, toasts, proc, server, nanoids,
                   opsLeft, eventsLeft, kinds, applied, last>>

\* reader.read() resolves with the next n symbols of the body
SseRead(n) ==
    /\ ~sse.done
    /\ LET d == drain(sse.buffer \o SubSeq(sse.wire, 1, n), sse.yielded)
       IN  sse' = [sse EXCEPT !.wire = SubSeq(@, n + 1, Len(@)),
                              !.buffer = d.buffer,
                              !.yielded = d.yielded,
                              !.mid = @ \/ InBlankLine(sse.wire, n)]
    /\ UNCHANGED <<THREAD_ID, localStorage, store, toasts, proc, server, nanoids,
                   opsLeft, eventsLeft, kinds, applied, last>>

\* reader.read() resolves with done: what is left in the buffer is one chunk
SseDone ==
    /\ ~sse.done
    /\ sse.wire = <<>>
    /\ sse' = [sse EXCEPT !.buffer = <<>>,
                          !.yielded = yieldChunk(@, sse.buffer),
                          !.done = TRUE]
    /\ UNCHANGED <<THREAD_ID, localStorage, store, toasts, proc, server, nanoids,
                   opsLeft, eventsLeft, kinds, applied, last>>

SseNext ==
    \/ \E n \in 1..Len(sse.wire) : SseRead(n)
    \/ SseDone

SseSpec == SseInit /\ [][SseNext]_vars

(***************************************************************************)
(* The store is exported (useStore): its operations can also be called     *)
(* directly, with any message.                                             *)
(***************************************************************************)
StoreMessages ==
    {Msg(id, THREAD_ID, "assistant", AgentOf(id), <<>>, TRUE) : id \in MsgIds}

StoreOp(op, id, s) ==
    /\ opsLeft > 0
    /\ opsLeft' = opsLeft - 1
    /\ store' = s
    /\ last' = [Last(op, NoValue) EXCEPT !.arg = id]
    /\ toasts' = 0
    /\ UNCHANGED <<THREAD_ID, localStorage, proc, server, nanoids,
                   applied, eventsLeft, kinds, sse>>

StoreAppendMessage(message) ==
    StoreOp("appendMessage", message.id, useStore_appendMessage(store, message))

StoreUpdateMessage(message) ==
    StoreOp("updateMessage", message.id, useStore_updateMessage(store, message))

StoreUpdateMessages(message) ==
    StoreOp("updateMessages", message.id,
            useStore_updateMessages(store, <<message>>))

StoreNext ==
    \/ Next
    \/ \E message \in StoreMessages : StoreAppendMessage(message)
    \/ \E message \in StoreMessages : StoreUpdateMessage(message)
    \/ \E message \in StoreMessages : StoreUpdateMessages(message)

\* one user operation fewer than in Init
StoreInit == InitWith(MaxOps - 1, MaxEvents, AllKinds, NoThreads) /\ sse = SseIdle

StoreSpec == StoreInit /\ [][StoreNext]_vars

(***************************************************************************)
(* Properties                                                              *)
(***************************************************************************)
Switches == {"switchConversation", "startNewConversation"}

\* the messages of the store, as a set
Stored == Range(store.messages)

\* C1: after a session switch no envelope of the previous session's stream is
\* applied: every message in the store originates from the active session.
C1_OnlyActiveSession == \A m \in Stored : m.threadId = THREAD_ID

\* C2: a reconnect stream is opened from the number of server events of the
\* session's run that have been applied to the local store.
C2_ReconnectFromApplied ==
    (last.op \in {"SendReconnect", "RestoreRunning", "RestoreReplay"}
        /\ proc[last.proc].sthread = THREAD_ID)
    => proc[last.proc].pos = Cardinality(applied)

\* C3: when the status query of sendMessage answers running, the reconnect is
\* requested from 0 (and the persisted cursor reset to 0) if the store held no
\* message when sendMessage was called, from the persisted cursor otherwise.
C3_ReconnectCursor ==
    [][last'.op = "SendReconnect" =>
          IF proc["send"].emptyAtCall
          THEN proc'["send"].pos = 0 /\ localStorage'.event_index = <<0>>
          ELSE proc'["send"].pos = getStoredEventIndex(localStorage)]_vars

\* C4: right after switchConversation or startNewConversation the persisted
\* cursor reads 0, the per-session state of the store is empty, and the
\* persisted and the in-store session id are the new id.
C4_SwitchResets ==
    [][last'.op \in Switches =>
          /\ getStoredEventIndex(localStorage') = 0
          /\ store'.messageIds = <<>>
          /\ store'.messages = <<>>
          /\ store'.researchIds = <<>>
          /\ DOMAIN store'.researchPlanIds = {}
          /\ DOMAIN store'.researchReportIds = {}
          /\ DOMAIN store'.researchActivityIds = {}
          /\ DOMAIN store'.researchQueries = {}
          /\ DOMAIN store'.researchCitations = {}
          /\ store'.ongoingResearchId = NoValue
          /\ store'.openResearchId = NoValue
          /\ THREAD_ID' # THREAD_ID
          /\ localStorage'.thread_id = THREAD_ID'
          /\ store'.threadId = THREAD_ID']_vars

C4_Witness ==
    /\ last.op = "switchConversation"
    /\ proc["send"].pc = "stream"
    /\ proc["send"].l.pendingUpdates # <<>>
    /\ localStorage.thread_id = "t2"

\* C5: a sendMessage call whose stream is open has set responding; whichever
\* way the stream ends, the call eventually returns with responding false.
C5_RespondingCleared ==
    (proc["send"].pc = "stream")
        ~> (proc["send"].pc = "idle" /\ ~store.responding)

\* sendMessage has returned after the transport of its reconnect stream threw
C5_Witness ==
    /\ last.op = "throw" /\ last.proc = "send"
    /\ proc["send"].pc = "idle"
    /\ ~store.responding

\* the fragments that the envelopes at places 1..n of a log carry
RECURSIVE FragsUpTo(_)
FragsUpTo(n) == IF n = 0 THEN <<>> ELSE Append(FragsUpTo(n - 1), Frags[n])

\* the only call so far is one sendMessage() on an empty store, whose live
\* stream has yielded the whole log, nothing but unterminated deltas of `id`
OnlyDeltasOf(id) ==
    LET log == server[THREAD_ID].log
    IN  /\ opsLeft = MaxOps - 1
        /\ nanoids = 0
        /\ Len(log) > 0
        /\ \A i \in 1..Len(log) :
              log[i].type = "message_chunk" /\ log[i].id = id /\ ~log[i].fin
        /\ applied = 1..Len(log)

\* C6: after a stream of unterminated deltas of one message id has ended, the
\* stored message's content is the concatenation of the fragments in arrival
\* order, and the message is streaming throughout.
C6_ContentIsConcatenation ==
    \A id \in MsgIds :
        OnlyDeltasOf(id) =>
            /\ existsMessage(store, id)
            /\ getMessage(store, id).isStreaming
            /\ (proc["send"].pc = "idle" =>
                    getMessage(store, id).content
                        = FragsUpTo(Len(server[THREAD_ID].log)))

\* the store between the catch block and the finally block, and after the
\* finally block, when the transport of call p's reconnect stream throws now
AfterCatch(p) == catchBlock(TheWorld, proc[p].l, FALSE).store
AfterFinally(p) == leaveLoop(TheWorld, proc[p].l, "throw").store

\* C7: within one session a stored message that is not streaming never
\* becomes streaming again: not from one store state to the next, and not
\* between the catch block's update and the finally block's flush.
C7_StreamingNeverReturns ==
    [][/\ (THREAD_ID' = THREAD_ID /\ last'.op # "reload") =>
            \A id \in Range(store.messageIds) :
                (~getMessage(store, id).isStreaming /\ existsMessage(store', id))
                    => ~getMessage(store', id).isStreaming
       /\ \A p \in Procs :
            (proc[p].pc = "stream" /\ proc[p].mode = "reconnect") =>
                \A id \in Range(store.messageIds) :
                    ~getMessage(AfterCatch(p), id).isStreaming
                        => ~getMessage(AfterFinally(p), id).isStreaming]_vars

NoDuplicates(ids) ==
    \A i, j \in 1..Len(ids) : ids[i] = ids[j] => i = j

\* C8: after every store operation and every envelope application messageIds
\* holds no id twice, and appendMessage of an id that messageIds holds leaves
\* messageIds as it was.
C8_NoDuplicateIds ==
    [][/\ NoDuplicates(store'.messageIds)
       /\ (last'.op = "appendMessage" /\ Includes(store.messageIds, last'.arg))
              => store'.messageIds = store.messageIds]_vars

\* appendMessage has been called with an id that messageIds held, after a
\* stream had put it there
C8_Witness ==
    /\ last.op = "appendMessage"
    /\ Includes(store.messageIds, last.arg)
    /\ applied # {}
    /\ Len(store.messageIds) = 1

\* no stored message has the tool call tcid
UnknownToolCall(s, tcid) ==
    \A i \in 1..Len(s.messages) : tcid \notin s.messages[i].toolCalls

\* the envelope that call p's stream yields in this step
Delivered(p) ==
    LET t == proc[p].sthread
    IN  server'[t].log[server[t].base + proc[p].pos + 1]

\* C9: a tool_call_result envelope whose tool_call_id no stored message has
\* changes neither messageIds nor any stored message nor the pending
\* updates, and the loop goes on to the next envelope; a history frame of the
\* kind leaves the store as it is.
C9_UnknownToolResultIsNoOp ==
    [][/\ \A p \in Procs :
            (/\ last'.op = "Deliver" /\ last'.proc = p
             /\ Delivered(p).type = "tool_call_result"
             /\ UnknownToolCall(store, Delivered(p).tcid))
            => /\ store'.messageIds = store.messageIds
               /\ store'.messages = store.messages
               /\ proc'[p].l.pendingUpdates = proc[p].l.pendingUpdates
               /\ proc'[p].pc = "stream"
               /\ proc'[p].pos = proc[p].pos + 1
       /\ \A tcid \in TcIds, t \in Threads :
            UnknownToolCall(store, tcid)
            => historyFrame(store, Event(Env("tool_call_result", "-", FALSE,
                                             tcid, "-"), Frags[1], t)) = store]_vars

\* a stream has just yielded a tool_call_result whose id no message has,
\* while the store held a message
C9_Witness ==
    /\ last.op = "Deliver"
    /\ proc[last.proc].pc = "stream"
    /\ proc[last.proc].pos > 0
    /\ RunLog(proc[last.proc].sthread)[proc[last.proc].pos].type
            = "tool_call_result"
    /\ store.messageIds # <<>>
    /\ UnknownToolCall(store, "tc1")

\* C10: when restoreSession has completed through the durable history, no
\* message in the store is streaming.
C10_HistoryLeavesNoStreaming ==
    last.op = "history" => \A m \in Stored : ~m.isStreaming

\* the fragment that the envelope of Delivered(p) carries
DeliveredFrag(p) == Frags[server[proc[p].sthread].base + proc[p].pos + 1]

\* C11: a citations envelope that arrives while a research unit is ongoing
\* makes the unit's citations exactly the list it carries; with no unit
\* ongoing it changes nothing in the store.
C11_CitationsReplace ==
    [][\A p \in Procs :
          (/\ last'.op = "Deliver" /\ last'.proc = p
           /\ Delivered(p).type = "citations")
          => IF store.ongoingResearchId # NoValue
             THEN /\ KvGet(store'.researchCitations, store.ongoingResearchId)
                        = <<DeliveredFrag(p)>>
                  /\ [store' EXCEPT !.researchCitations = store.researchCitations]
                        = store
             ELSE store' = store]_vars

\* a second citations envelope in a row has arrived for the ongoing unit,
\* whose citations are the second list alone
C11_Witness ==
    /\ last = Last("Deliver", "restore")
    /\ proc["restore"].pc = "stream"
    /\ proc["restore"].pos = 4
    /\ RunLog("t1")[3].type = "citations"
    /\ RunLog("t1")[4].type = "citations"
    /\ store.ongoingResearchId = "m2"
    /\ KvGet(store.researchCitations, "m2") = <<Frags[4]>>

\* C12: an error envelope raises no toast when its reason is "cancelled" and
\* exactly one otherwise, and sendMessage returns with responding false.
C12_ErrorEnvelope ==
    [][\A p \in Procs :
          (/\ last'.op = "Deliver" /\ last'.proc = p
           /\ Delivered(p).type = "error")
          => /\ toasts' = IF Delivered(p).reason = "cancelled" THEN 0 ELSE 1
             /\ proc'[p].pc # "stream"
             /\ p = "send" => (proc'[p].pc = "idle" /\ ~store'.responding)]_vars

\* sendMessage has returned after an error envelope that raised a toast
C12_Witness ==
    /\ last = Last("Deliver", "send")
    /\ proc["send"].pc = "idle"
    /\ ~store.responding
    /\ toasts = 1
    /\ server[THREAD_ID].status = "error"
    /\ server[THREAD_ID].log[Len(server[THREAD_ID].log)].reason = "failed"

\* C13: a frame whose data line is not valid JSON contributes nothing and does
\* not end the stream it arrives on, so that the frames after it are applied.
C13_MalformedFrameSkipped ==
    [][\A p \in Procs :
          (/\ last'.op = "Deliver" /\ last'.proc = p
           /\ Delivered(p).type = "malformed")
          => /\ store' = store
             /\ proc'[p].pc = "stream"
             /\ proc'[p].pos = proc[p].pos + 1]_vars

\* the user message that sendMessage(content) has just appended
OptimisticMessage(content) ==
    Msg(UserIds[nanoids + 1], THREAD_ID, "user", NoValue, <<content>>, FALSE)

\* C14: sendMessage(content) with a content has the user message with exactly
\* that content in the store before the status query is answered; the fresh
\* live stream starts with the persisted cursor at 0, and after its k-th
\* envelope the persisted cursor is k.
C14_OptimisticThenCursor ==
    [][/\ (last'.op = "sendMessage" /\ last'.arg # NoValue)
          => /\ proc'["send"].pc = "status"
             /\ store'.messageIds =
                   Append(store.messageIds, OptimisticMessage(last'.arg).id)
             /\ MapGet(store'.messages, OptimisticMessage(last'.arg).id)
                   = OptimisticMessage(last'.arg)
       /\ last'.op = "SendLive"
          => /\ getStoredEventIndex(localStorage') = 0
             /\ proc'["send"].pos = 0
             /\ proc'["send"].mode = "live"
       /\ (/\ last'.op = "Deliver" /\ last'.proc = "send"
           /\ proc["send"].mode = "live"
           /\ Delivered("send").type # "malformed")
          => getStoredEventIndex(localStorage') = proc["send"].pos + 1]_vars

\* the live stream of a second sendMessage("hi"), sent with the cursor of the
\* first run still persisted, has applied its first envelope
C14_Witness ==
    /\ last = Last("Deliver", "send")
    /\ proc["send"].pc = "stream"
    /\ proc["send"].mode = "live"
    /\ proc["send"].pos = 1
    /\ server[THREAD_ID].base = 1
    /\ getStoredEventIndex(localStorage) = 1
    /\ Includes(store.messageIds, "u2")
    /\ MapGet(store.messages, "u2").content = <<UserContent>>

\* C15: a sendMessage whose status query answered running opens the reconnect
\* stream and no live stream, starts no run on the server, and returns when
\* that one reconnect stream is over.
C15_ReconnectOnly ==
    [][/\ last'.op = "SendReconnect"
          => /\ proc'["send"].pc = "stream"
             /\ proc'["send"].mode = "reconnect"
             /\ server' = server
       /\ (proc["send"].pc = "stream" /\ proc["send"].mode = "reconnect")
          => /\ \/ proc'["send"].pc = "idle"
                \/ /\ proc'["send"].pc = "stream"
                   /\ proc'["send"].mode = "reconnect"
                   /\ proc'["send"].sthread = proc["send"].sthread
             /\ \A t \in Threads : server'[t].base = server[t].base]_vars

\* sendMessage has returned at the end of the reconnect stream of a run that
\* has emitted envelopes
C15_Witness ==
    /\ last = [Last("end", "send") EXCEPT !.arg = "reconnect", !.conn = "closed"]
    /\ proc["send"].pc = "idle"
    /\ ~store.responding
    /\ server[THREAD_ID].base = 0
    /\ applied # {}

\* a state of a consumer with its timer fired, if it is armed
Fired(c) ==
    IF c.l.updateTimer
    THEN LET r == flushTimer(c.w, c.l) IN [w |-> r.w, l |-> r.l]
    ELSE c

\* the states a client can be in that started with an empty store and has
\* consumed the envelopes of the first k frames of the run of thread t over
\* one live stream, whenever its timer fired
RECURSIVE LiveClient(_, _)
LiveClient(t, k) ==
    IF k = 0
    THEN {[w |-> World(setResponding(InitialStore(t), TRUE),
                       setStoredEventIndex(localStorage, 0), 0),
           l |-> InitLocals]}
    ELSE LET before == LiveClient(t, k - 1)
             e == RunLog(t)[k]
             event == Event(e, Frags[server[t].base + k], t)
             after == {IF e.type = "malformed" THEN c
                       ELSE LET r == processEvent(c.w, c.l, event, TRUE)
                            IN  [w |-> r.w, l |-> r.l] : c \in before}
         IN  after \cup {Fired(c) : c \in after}

\* restoreSession is consuming the reconnect stream of its running branch, and
\* is the only operation since the page was loaded
Rebuilding ==
    /\ proc["restore"].pc = "stream"
    /\ proc["restore"].after = "respond"
    /\ opsLeft = ColdOps - 1

\* C16: on a cold load restoreSession with status running reconnects from
\* cursor 0, and after k envelopes of that stream the store holds what a client
\* holds that consumed the same k envelopes over a live stream started with an
\* empty store.
C16_RebuildEqualsLive ==
    /\ last.op = "RestoreRunning"
       => /\ proc["restore"].pos = 0
          /\ getStoredEventIndex(localStorage) = 0
          /\ proc["restore"].mode = "reconnect"
    /\ Rebuilding
       => \E c \in LiveClient(proc["restore"].sthread, proc["restore"].pos) :
             /\ c.w.store = store
             /\ c.l = proc["restore"].l
             /\ c.w.ls = localStorage

\* the rebuild has consumed the planner frame emitted before the reload and
\* two frames of the reporter after it
C16_Witness ==
    /\ Rebuilding
    /\ last = Last("Deliver", "restore")
    /\ proc["restore"].pos = 3
    /\ store.messageIds = <<"m1", "m2">>
    /\ RunLog("t1")[3].id = "m2"

\* restoreSession is consuming the replay of its completed/error branch
Replaying ==
    /\ proc["restore"].pc = "stream"
    /\ proc["restore"].after = "fallback"

\* C17: restoreSession asks for the durable history after the replay of a
\* completed or failed run only if the replay left the store without messages,
\* and asks for it directly, with no reconnect stream, when the status is
\* not_found or the status query failed.
C17_HistoryFallback ==
    [][/\ (Replaying /\ last'.proc = "restore" /\ proc'["restore"].pc # "stream")
          => IF store'.messageIds = <<>>
             THEN proc'["restore"].pc = "history"
             ELSE proc'["restore"].pc = "idle"
       /\ last'.op = "RestoreNoRun"
          => /\ proc["restore"].pc = "status"
             /\ proc'["restore"].pc = "history"
             /\ store' = store
       /\ (proc'["restore"].pc = "history" /\ proc["restore"].pc # "history")
          => \/ last'.op = "RestoreNoRun"
             \/ Replaying /\ store'.messageIds = <<>>
       /\ last'.op = "RestoreReplay"
          => /\ proc'["restore"].pos = 0
             /\ getStoredEventIndex(localStorage') = 0]_vars

\* the replay of a run that has ended left no message and restoreSession
\* turns to the history
C17_Witness ==
    /\ last.op = "end"
    /\ last.proc = "restore"
    /\ proc["restore"].pc = "history"
    /\ store.messageIds = <<>>
    /\ server[proc["restore"].qthread].status \in {"completed", "error"}

\* the report of the ongoing research unit is stored and no longer streaming
OngoingReportFinished ==
    LET researchId == store.ongoingResearchId
        reportId == KvGet(store.researchReportIds, researchId)
    IN  /\ researchId # NoValue
        /\ reportId # NoValue
        /\ Includes(store.messageIds, reportId)
        /\ ~MapGet(store.messages, reportId).isStreaming

\* C18: when a stream has ended normally, no research unit is still ongoing
\* whose reporter message has finished streaming.
C18_ReportClosesResearch ==
    last.op = "end" => ~OngoingReportFinished

\* the envelope e makes processEventStream append a message of a delegated
\* agent while no research unit is ongoing and the store holds no planner
\* message
OpensUnplannedResearch(e) ==
    /\ e.type \in {"message_chunk", "tool_calls"}
    /\ IsResearchAgent(AgentOf(e.id))
    /\ ~existsMessage(store, e.id)
    /\ getOngoingResearchId(store) = NoValue
    /\ PlanMessageOf(store).id = NoValue

\* C19: the first message of a delegated agent, arriving with no research unit
\* ongoing and no planner message before it, is appended and opens a research
\* unit, and the stream goes on without a failure notice.
C19_ResearchWithoutPlan ==
    [][\A p \in Procs :
          (/\ last'.op = "Deliver" /\ last'.proc = p
           /\ OpensUnplannedResearch(Delivered(p)))
          => /\ Includes(store'.messageIds, Delivered(p).id)
             /\ store'.ongoingResearchId = Delivered(p).id
             /\ proc'[p].pc = "stream"
             /\ toasts' = 0]_vars

\* C20: a transport failure of a live or a reconnect stream ends the stream
\* without a failure notice and leaves the messages of the store in place.
C20_TransportFailureSilent ==
    [][last'.op \in {"silent", "throw"}
          => /\ toasts' = 0
             /\ store'.messageIds = store.messageIds]_vars

\* C21: aborting the signal passed to sendMessage, at any point of its live or
\* reconnect stream, raises no failure notice, ends the stream so that none of
\* its envelopes is applied afterwards, and has no effect when repeated or done
\* after the stream has ended.
C21_AbortIsClean ==
    [][last'.op = "abort"
          => /\ toasts' = 0
             /\ proc'["send"].pc = "idle"
             /\ store'.messageIds = store.messageIds
             /\ applied' = applied
             /\ proc["send"].pc # "stream"
                => /\ store' = store
                   /\ localStorage' = localStorage
                   /\ proc' = proc
                   /\ server' = server]_vars

\* sendMessage has returned from an aborted reconnect stream, with the
\* persisted cursor at 2
C21_Witness ==
    /\ last = [Last("abort", "send") EXCEPT !.arg = "reconnect", !.conn = "closed"]
    /\ proc["send"].pc = "idle"
    /\ toasts = 0
    /\ ~store.responding
    /\ getStoredEventIndex(localStorage) = 2

\* the status query of the step just taken failed
QueryFailed == last.arg \in {"not_ok", "rejected"}

\* C22: after a status query that failed sendMessage opens a live stream and
\* restoreSession asks for the durable history; neither opens a reconnect
\* stream.
C22_FailedQueryIsNotFound ==
    [][/\ last'.op \in {"SendReconnect", "RestoreRunning", "RestoreReplay"}
          => last'.arg = "ok"
       /\ (proc["send"].pc = "status" /\ last'.proc = "send" /\ QueryFailed')
          => /\ last'.op = "SendLive"
             /\ proc'["send"].pc = "stream"
             /\ proc'["send"].mode = "live"
       /\ (proc["restore"].pc = "status" /\ last'.proc = "restore" /\ QueryFailed')
          => /\ last'.op = "RestoreNoRun"
             /\ proc'["restore"].pc = "history"]_vars

\* restoreSession turns to the history after a status request that fetch
\* rejected, while the run of the thread is under way
C22_Witness ==
    /\ last = [Last("RestoreNoRun", "restore") EXCEPT !.arg = "rejected"]
    /\ proc["restore"].pc = "history"
    /\ server[proc["restore"].qthread].status = "running"

\* C23: a sendMessage that waits for the answer to its status query eventually
\* stops waiting, whether or not a response ever arrives.
C23_StatusQueryBounded ==
    (proc["send"].pc = "status") ~> (proc["send"].pc # "status")

\* C24: when the consumption of a reconnect stream stops, by the caller's
\* abort, by the break on an error envelope or by an exception in the loop,
\* the connection of the stream is closed.
C24_ReconnectClosesConnection ==
    [][\A p \in Procs :
          (/\ proc[p].pc = "stream" /\ proc[p].mode = "reconnect"
           /\ last'.proc = p /\ last'.op \in {"Deliver", "abort"}
           /\ proc'[p].pc # "stream")
          => last'.conn = "closed"]_vars

\* what chatStreamReconnect yields for a whole body
Decode(text) ==
    LET d == drain(text, <<>>) IN yieldChunk(d.yielded, d.buffer)

\* C25: for a body whose lines end in CRLF chatStreamReconnect yields the
\* envelopes it yields for the same frames with lines ending in LF.
C25_CrlfAsLf ==
    sse.done => sse.yielded = Decode(StreamText(sse.frames, FALSE))

\* with LF line ends every frame is yielded as its own envelope
LfBodyDecodes ==
    (sse.done /\ ~sse.crlf)
        => sse.yielded = [i \in 1..Len(sse.frames) |->
                             [type |-> <<sse.frames[i].kind>>,
                              data |-> sse.frames[i].payload]]

\* the merged messages that call p holds in its batch
Pending(p) == proc[p].l.pendingUpdates

\* C26: when processEventStream returns, however its stream ended, the store
\* holds every merged message that was pending in the batch and no batch timer
\* is left.
C26_FlushOnReturn ==
    [][\A p \in Procs :
          (proc[p].pc = "stream" /\ last'.proc = p /\ proc'[p].pc # "stream")
          => /\ \A i \in 1..Len(Pending(p)) :
                   MapGet(store'.messages, Pending(p)[i].id) = Pending(p)[i]
             /\ ~proc'[p].l.updateTimer
             /\ proc'[p].l.pendingUpdates = <<>>]_vars

\* a live stream has ended after two chunks of a message and the store holds
\* both
C26_Witness ==
    /\ last = [Last("end", "send") EXCEPT !.arg = "live"]
    /\ proc["send"].pc = "idle"
    /\ store.messageIds = <<"m1">>
    /\ MapGet(store.messages, "m1").content = <<"a", "b">>

\* C27: with localStorage unavailable, a reconnect that sendMessage opens on a
\* store that holds messages asks for the events after those already applied.
C27_CursorInMemory ==
    [][(/\ last'.op = "SendReconnect"
        /\ ~localStorage.available
        /\ Len(store.messageIds) > 0)
          => proc'["send"].pos = Cardinality(applied)]_vars

\* C28: switchConversation and startNewConversation leave the list of
\* conversations and the conversationsLoaded flag as they are.
C28_SwitchKeepsConversations ==
    [][last'.op \in {"switchConversation", "startNewConversation"}
          => /\ store'.conversations = store.conversations
             /\ store'.conversationsLoaded = store.conversationsLoaded]_vars

\* the session has been switched with the list of conversations loaded
C28_Witness ==
    /\ last.op = "switchConversation"
    /\ store.conversationsLoaded
    /\ store.conversations = <<"t1">>
    /\ THREAD_ID = "t2"
    /\ store.messageIds = <<>>

\* C29: a consumer loop started for the previous session does not write the
\* persisted cursor after the session has been switched, so that the cursor
\* counts only events of the persisted session id.
C29_CursorOfPersistedSession ==
    [][\A p \in Procs :
          (/\ last'.op = "Deliver" /\ last'.proc = p
           /\ proc[p].sthread # THREAD_ID
           /\ localStorage.thread_id = THREAD_ID)
          => localStorage'.event_index = localStorage.event_index]_vars

\* the envelope that call p's stream yields in this step is not applied to
\* the store: an error envelope, or a tool result that no stored message asked
NotApplied(p) ==
    \/ Delivered(p).type = "error"
    \/ /\ Delivered(p).type = "tool_call_result"
       /\ UnknownToolCall(store, Delivered(p).tcid)

\* C30: in a stream that tracks the cursor, an envelope that is not applied to
\* the store (an error envelope, a tool result with no matching message) does
\* not advance the persisted cursor.
C30_CursorAfterApply ==
    [][\A p \in Procs :
          (/\ last'.op = "Deliver" /\ last'.proc = p
           /\ proc[p].sthread = THREAD_ID
           /\ NotApplied(p))
          => getStoredEventIndex(localStorage') = getStoredEventIndex(localStorage)]_vars

\* the steps that reset the persisted cursor to 0: a session switch, the
\* start of a new run, a reconnect from 0
CursorResets ==
    Switches \cup {"SendLive", "SendReconnect", "RestoreRunning", "RestoreReplay"}

\* C31: the persisted cursor is a non-negative integer that decreases only
\* when a session switch, the start of a new run or a reconnect from 0 resets
\* it to 0, also while the consumer loops of restoreSession and of sendMessage
\* run interleaved.
C31_CursorMonotonic ==
    [][/\ getStoredEventIndex(localStorage') \in Nat
       /\ getStoredEventIndex(localStorage') < getStoredEventIndex(localStorage)
             => /\ last'.op \in CursorResets
                /\ getStoredEventIndex(localStorage') = 0]_vars

\* C32: the store operation appendMessage called with a message whose id
\* messageIds holds changes neither messageIds nor the message stored under
\* that id.
C32_AppendPresentIsNoOp ==
    [][(last'.op = "appendMessage" /\ Includes(store.messageIds, last'.arg))
          => /\ store'.messageIds = store.messageIds
             /\ MapGet(store'.messages, last'.arg)
                    = MapGet(store.messages, last'.arg)]_vars

\* the message of the latest id of messageIds whose message satisfies Test
LatestMessage(s, Test(_)) ==
    LET hits == {i \in 1..Len(s.messageIds) : Test(getMessage(s, s.messageIds[i]))}
    IN  IF hits = {} THEN NoMessage
        ELSE getMessage(s, s.messageIds[CHOOSE i \in hits : \A j \in hits : j <= i])

IsPlanner(m) == m.id # NoValue /\ m.agent = "planner"

IsUser(m) == m.id # NoValue /\ m.role = "user"

\* the message that the step has appended opens a research unit
OpensResearch ==
    /\ last'.op = "appendedMessage"
    /\ IsResearchAgent(getMessage(store', last'.arg).agent)
    /\ getOngoingResearchId(store) = NoValue

\* the message that the step has appended joins the ongoing research unit
JoinsResearch ==
    /\ last'.op = "appendedMessage"
    /\ IsResearchAgent(getMessage(store', last'.arg).agent)
    /\ getOngoingResearchId(store) # NoValue

\* C33: a research unit is opened exactly when a message of a delegated agent
\* is appended while no unit is ongoing; the unit is keyed by the message's
\* id, its plan is the latest planner message of messageIds, its query the
\* content of the latest user message before it, and its activity list starts
\* with the plan id and the message id; while a unit is ongoing the messages of
\* delegated agents join its activity list in arrival order, none twice.
C33_ResearchUnit ==
    [][/\ OpensResearch <=> store'.researchIds # store.researchIds
       /\ OpensResearch =>
             LET id == last'.arg
                 planId == LatestMessage(store, IsPlanner).id
             IN  /\ store'.researchIds = Append(store.researchIds, id)
                 /\ getOngoingResearchId(store') = id
                 /\ KvGet(store'.researchPlanIds, id) = planId
                 /\ KvGet(store'.researchActivityIds, id) = <<planId, id>>
                 /\ LatestMessage(store, IsUser) # NoMessage
                       => KvGet(store'.researchQueries, id)
                             = LatestMessage(store, IsUser).content
       /\ JoinsResearch =>
             LET unit == getOngoingResearchId(store)
                 current == KvGet(store.researchActivityIds, unit)
             IN  /\ getOngoingResearchId(store') = unit
                 /\ KvGet(store'.researchActivityIds, unit)
                       = IF Includes(current, last'.arg) THEN current
                         ELSE Append(current, last'.arg)
                 /\ NoDuplicates(KvGet(store'.researchActivityIds, unit))]_vars

\* the frames of the history from place i on, error frames left out, folded
\* into the store in order
RECURSIVE ReplayOthers(_, _, _, _)
ReplayOthers(s, frames, i, thread) ==
    IF i > Len(frames) THEN s
    ELSE IF frames[i].type = "error"
         THEN ReplayOthers(s, frames, i + 1, thread)
         ELSE ReplayOthers(historyFrame(s, Event(frames[i], Frags[i], thread)),
                           frames, i + 1, thread)

\* C34: during the replay of the durable history an error frame raises no
\* notice, creates or changes no message and does not stop the replay: every
\* later frame of the list is still applied, in order.
C34_HistorySkipsError ==
    [][last'.op = "history"
          => /\ toasts' = 0
             /\ store' = ReplayOthers(store, server[proc["restore"].qthread].log,
                                      1, proc["restore"].qthread)
             /\ \A r \in {"cancelled", "failed"} :
                   historyFrame(store', Event(Env("error", "-", FALSE, "-", r), Frags[1],
                                              proc["restore"].qthread)) = store']_vars

\* the history has been replayed, an error frame was in it and the frame after
\* the error frame, an unterminated delta, has been merged into its message
C34_Witness ==
    /\ last.op = "history"
    /\ \E t \in Threads :
          /\ Len(server[t].log) = 2
          /\ server[t].log[1].type = "error"
          /\ server[t].log[2].type = "message_chunk"
          /\ store.threadId = t
          /\ Includes(store.messageIds, server[t].log[2].id)
          /\ ~server[t].log[2].fin
          /\ ~MapGet(store.messages, server[t].log[2].id).isStreaming

\* the envelope that call p consumed last, if it is still in the run's log
ConsumedLast(p) ==
    LET t == proc[p].sthread
        i == server[t].base + proc[p].pos
    IN  IF proc[p].started /\ proc[p].pos > 0 /\ i <= Len(server[t].log)
        THEN server[t].log[i]
        ELSE Env("none", "-", FALSE, "-", "-")

\* C35: an error envelope ends the consumption of its stream, so that no later
\* envelope of the stream is applied, and the merged messages that were
\* pending in the batch before it are written to the store; the error
\* envelope itself creates no message and changes no other message.
C35_ErrorStopsStream ==
    [][\A p \in Procs :
          /\ (/\ last'.op = "Deliver" /\ last'.proc = p
              /\ Delivered(p).type = "error")
             => /\ proc'[p].pc # "stream"
                /\ store'.messageIds = store.messageIds
                /\ \A i \in 1..Len(Pending(p)) :
                      MapGet(store'.messages, Pending(p)[i].id) = Pending(p)[i]
                /\ \A i \in 1..Len(store.messages) :
                      store.messages[i].id \notin IdsOf(Pending(p))
                      => MapGet(store'.messages, store.messages[i].id)
                            = store.messages[i]
          /\ (last'.op = "Deliver" /\ last'.proc = p)
             => ConsumedLast(p).type # "error"]_vars

\* a live stream has yielded a chunk of m1 and then an error envelope, and the
\* store holds the chunk
C35_Witness ==
    /\ last = Last("Deliver", "send")
    /\ proc["send"].pc = "idle"
    /\ Len(server[THREAD_ID].log) = 2
    /\ server[THREAD_ID].log[1].type = "message_chunk"
    /\ server[THREAD_ID].log[2].type = "error"
    /\ applied = {1, 2}
    /\ MapGet(store.messages, "m1").content = <<"a">>

\* the envelopes of the frames of the body, one for each frame
EnvelopesOf(frames) ==
    [i \in 1..Len(frames) |-> [type |-> <<frames[i].kind>>, data |-> frames[i].payload]]

\* what the read loop will have yielded if the rest of the body arrives in
\* one piece
YieldedAtOnce ==
    LET d == drain(sse.buffer \o sse.wire, sse.yielded)
    IN  yieldChunk(d.yielded, d.buffer)

\* C36: what chatStreamReconnect yields depends on the text of the body only,
\* not on the pieces it arrives in: after any reads, the envelopes yielded so
\* far and those of the rest are the envelopes of the whole text, and for a
\* body with LF line ends they are the envelopes of its frames in order, also
\* when the last frame lacks its blank line.
C36_SplitIndependent ==
    /\ YieldedAtOnce = Decode(BodyText(sse.frames, sse.crlf, sse.cut))
    /\ (sse.done /\ ~sse.crlf) => sse.yielded = EnvelopesOf(sse.frames)

\* the read loop has ended on a body with LF line ends whose last frame lacks
\* its blank line, after a read that ended inside the blank line between the
\* two frames, and both frames have been yielded
C36_Witness ==
    /\ sse.done
    /\ ~sse.crlf
    /\ sse.cut = Len(Eol(sse.crlf) \o Eol(sse.crlf))
    /\ sse.mid
    /\ Len(sse.frames) = 2
    /\ sse.yielded = EnvelopesOf(sse.frames)

\* C37: a merged message waits in the batch for at most one interval, also
\* while the stream delivers envelopes faster than the interval.
C37_FlushWithinInterval ==
    \A p \in Procs :
        (proc[p].pc = "stream" /\ Pending(p) # <<>>)
            => proc[p].l.pendingAge <= BatchInterval

\* C38: when a live or a reconnect stream ends by a transport failure or by
\* the caller's cancellation, no message of the store is streaming once
\* processEventStream has returned.
C38_NoStreamingAfterFailure ==
    [][last'.op \in {"silent", "throw", "abort"}
          => \A m \in Range(store'.messages) : ~m.isStreaming]_vars

\* C39: the keys of the messages map are the ids of messageIds: every listed
\* id has a stored message and no message is stored under an id that
\* messageIds lacks.
C39_MapMatchesIds == IdsOf(store.messages) = Range(store.messageIds)

\* C40: while responding is false no call of sendMessage is consuming a
\* stream: neither a session switch nor the return of an overlapping call
\* clears responding under a stream that sendMessage is consuming.
C40_RespondingCoversStream ==
    proc["send"].pc = "stream" => store.responding

====
